---- MODULE Spec2Model ----
(***************************************************************************)
(* Model of src/python/magenta_wrapper.py: the NoteSequence JSON <-> MIDI  *)
(* wrapper (note_sequence_to_midi, midi_to_note_sequence), its two HTTP    *)
(* endpoints and the command line entry point.                             *)
(*                                                                         *)
(* Times are integers counted in units of 1/1760 s, so that one tick of    *)
(* the files the serializer writes (220 ticks per quarter) is 4 units at   *)
(* 120 qpm and 8 units at 60 qpm, and 0.5 s is 880 units.                  *)
(***************************************************************************)
EXTENDS Integers, Sequences, FiniteSets, TLC

\* ------------------------------------------------------------------ bounds
MaxNotes == 2
MaxReq == 2

\* --------------------------------------------------------------- constants
HalfSecond == 880          \* note.start_time + 0.5
DefaultPitch == 60
DefaultVelocity == 80
DefaultQpm == 120          \* tempo.qpm = 120.0
DefaultNumerator == 4
DefaultDenominator == 4
StandardPPQ == 220         \* resolution of the files note_seq writes
MaxDataByte == 127         \* largest MIDI data byte mido accepts

UnitsPerSecond == 2 * HalfSecond

\* ----------------------------------------------------------------- helpers
Get(d, k, default) == IF k \in DOMAIN d THEN d[k] ELSE default

RECURSIVE MaxEnd(_, _)
MaxEnd(notes, i) ==
  IF i = 0 THEN 0
  ELSE LET m == MaxEnd(notes, i - 1)
       IN  IF i = 1 \/ notes[i].end_time > m THEN notes[i].end_time ELSE m

RoundDiv(a, b) == (2 * a + b) \div (2 * b)

\* ------------------------------------------------- note_sequence_to_midi
\* lines 38-46: one note of the input dictionary, with its defaults
BuildNote(nd) ==
  LET start == Get(nd, "startTime", 0)
  IN  [pitch      |-> Get(nd, "pitch", DefaultPitch),
       start_time |-> start,
       end_time   |-> Get(nd, "endTime", start + HalfSecond),
       velocity   |-> Get(nd, "velocity", DefaultVelocity),
       instrument |-> Get(nd, "instrument", 0),
       program    |-> Get(nd, "program", 0),
       is_drum    |-> Get(nd, "isDrum", FALSE)]

BuildNotes(ns) ==
  LET nds == Get(ns, "notes", <<>>)
  IN  [i \in 1..Len(nds) |-> BuildNote(nds[i])]

\* a variant that adds the default tempo whether or not tempos are given
BuildTemposAlwaysDefault(ns) ==
  LET given == Get(ns, "tempos", <<>>)
  IN  [i \in 1..Len(given) |->
         [time |-> Get(given[i], "time", 0), qpm |-> Get(given[i], "qpm", DefaultQpm)]]
      \o << [time |-> 0, qpm |-> DefaultQpm] >>

\* lines 48-58: the tempos, or the default one when the key is absent
BuildTempos(ns) ==
  IF "tempos" \in DOMAIN ns
  THEN [i \in 1..Len(ns.tempos) |->
          [time |-> Get(ns.tempos[i], "time", 0),
           qpm  |-> Get(ns.tempos[i], "qpm", DefaultQpm)]]
  ELSE << [time |-> 0, qpm |-> DefaultQpm] >>

\* lines 60-72: the time signatures, or the default one when the key is absent
BuildTimeSignatures(ns) ==
  IF "timeSignatures" \in DOMAIN ns
  THEN [i \in 1..Len(ns.timeSignatures) |->
          [time        |-> Get(ns.timeSignatures[i], "time", 0),
           numerator   |-> Get(ns.timeSignatures[i], "numerator", DefaultNumerator),
           denominator |-> Get(ns.timeSignatures[i], "denominator", DefaultDenominator)]]
  ELSE << [time |-> 0, numerator |-> DefaultNumerator, denominator |-> DefaultDenominator] >>

\* a variant that derives the total time from the notes even when the key
\* is given
BuildTotalTimeFromNotesOnly(ns, notes) ==
  IF Len(notes) > 0 THEN MaxEnd(notes, Len(notes)) ELSE 0

\* lines 74-80
BuildTotalTime(ns, notes) ==
  IF "totalTime" \in DOMAIN ns THEN ns.totalTime
  ELSE IF Len(notes) > 0 THEN MaxEnd(notes, Len(notes))
  ELSE 0

\* lines 35-80: the NoteSequence handed to the serializer
BuildSequence(ns) ==
  LET notes == BuildNotes(ns)
  IN  [notes           |-> notes,
       tempos          |-> BuildTempos(ns),
       time_signatures |-> BuildTimeSignatures(ns),
       total_time      |-> BuildTotalTime(ns, notes)]

\* ------------------------------------------------- midi_to_note_sequence
\* a variant that writes isDrum for every note
NoteToDictWithDrumKey(n) ==
  [pitch |-> n.pitch, startTime |-> n.start_time, endTime |-> n.end_time,
   velocity |-> n.velocity, instrument |-> n.instrument,
   program |-> n.program, isDrum |-> n.is_drum]

\* lines 117-127: isDrum is written only for a percussion note
NoteToDict(n) ==
  IF n.is_drum
  THEN [pitch |-> n.pitch, startTime |-> n.start_time, endTime |-> n.end_time,
        velocity |-> n.velocity, instrument |-> n.instrument,
        program |-> n.program, isDrum |-> TRUE]
  ELSE [pitch |-> n.pitch, startTime |-> n.start_time, endTime |-> n.end_time,
        velocity |-> n.velocity, instrument |-> n.instrument,
        program |-> n.program]

\* lines 108-144
SequenceToDict(seq) ==
  [notes          |-> [i \in 1..Len(seq.notes) |-> NoteToDict(seq.notes[i])],
   tempos         |-> [i \in 1..Len(seq.tempos) |->
                         [time |-> seq.tempos[i].time, qpm |-> seq.tempos[i].qpm]],
   timeSignatures |-> [i \in 1..Len(seq.time_signatures) |->
                         [time        |-> seq.time_signatures[i].time,
                          numerator   |-> seq.time_signatures[i].numerator,
                          denominator |-> seq.time_signatures[i].denominator]],
   totalTime      |-> seq.total_time]

\* ------------------------------------------- the MIDI file and its ticks
\* A MIDI file as the serializer and the parser (note_seq over pretty_midi
\* and mido, called at lines 83 and 105) see it: a resolution, tempo events,
\* time-signature events and notes, all placed on integer ticks.
MaxOf(S) == CHOOSE x \in S : \A y \in S : y <= x

\* length of one tick, in time units, at a resolution and a tempo
TickLen(ppq, qpm) == (60 * UnitsPerSecond) \div (qpm * ppq)

\* time of the i-th tempo breakpoint of the tick scales sc (sc[1].tick = 0)
RECURSIVE BreakTime(_, _, _)
BreakTime(ppq, sc, i) ==
  IF i = 1 THEN 0
  ELSE BreakTime(ppq, sc, i - 1)
         + (sc[i].tick - sc[i - 1].tick) * TickLen(ppq, sc[i - 1].qpm)

\* piecewise-linear tick -> time under the tempo in effect
TickToTime(ppq, sc, k) ==
  LET i == MaxOf({j \in 1..Len(sc) : j = 1 \/ sc[j].tick <= k})
  IN  BreakTime(ppq, sc, i) + (k - sc[i].tick) * TickLen(ppq, sc[i].qpm)

\* time -> nearest tick under the tempo in effect
TimeToTick(ppq, sc, t) ==
  LET i == MaxOf({j \in 1..Len(sc) : j = 1 \/ BreakTime(ppq, sc, j) <= t})
  IN  sc[i].tick + RoundDiv(t - BreakTime(ppq, sc, i), TickLen(ppq, sc[i].qpm))

\* the first tempo at time 0 of a sequence, or the default tempo
InitialQpm(tempos) ==
  LET zs == {i \in 1..Len(tempos) : tempos[i].time = 0}
  IN  IF zs = {} THEN DefaultQpm
      ELSE tempos[CHOOSE i \in zs : \A j \in zs : i <= j].qpm

\* the remaining tempos become tick scales, in the order of the list
RECURSIVE AddScales(_, _, _)
AddScales(sc, tempos, i) ==
  IF i > Len(tempos) THEN sc
  ELSE IF tempos[i].time = 0 /\ tempos[i].qpm = sc[1].qpm
       THEN AddScales(sc, tempos, i + 1)
       ELSE AddScales(Append(sc, [tick |-> TimeToTick(StandardPPQ, sc, tempos[i].time),
                                  qpm  |-> tempos[i].qpm]),
                      tempos, i + 1)

EncodeScales(seq) ==
  AddScales(<< [tick |-> 0, qpm |-> InitialQpm(seq.tempos)] >>, seq.tempos, 1)

\* line 83: the serializer rejects a data byte outside 0..127
Unencodable(seq) ==
  \E i \in 1..Len(seq.notes) :
     \/ seq.notes[i].pitch \notin 0..MaxDataByte
     \/ seq.notes[i].velocity \notin 0..MaxDataByte
     \/ seq.notes[i].program \notin 0..MaxDataByte

\* line 83: note_seq.sequence_proto_to_midi_file
SequenceProtoToMidiFile(seq) ==
  LET sc == EncodeScales(seq)
      T(t) == TimeToTick(StandardPPQ, sc, t)
  IN  [ppq      |-> StandardPPQ,
       tempos   |-> sc,
       timeSigs |-> [i \in 1..Len(seq.time_signatures) |->
                       [tick        |-> T(seq.time_signatures[i].time),
                        numerator   |-> seq.time_signatures[i].numerator,
                        denominator |-> seq.time_signatures[i].denominator]],
       notes    |-> [i \in 1..Len(seq.notes) |->
                       [pitch      |-> seq.notes[i].pitch,
                        velocity   |-> seq.notes[i].velocity,
                        startTick  |-> T(seq.notes[i].start_time),
                        endTick    |-> T(seq.notes[i].end_time),
                        instrument |-> seq.notes[i].instrument,
                        program    |-> seq.notes[i].program,
                        isDrum     |-> seq.notes[i].is_drum]]]

\* the parser's tick scales: 120 qpm at tick 0 unless the file sets a tempo there
RECURSIVE LoadScales(_, _, _)
LoadScales(sc, evs, i) ==
  IF i > Len(evs) THEN sc
  ELSE IF evs[i].tick = 0
       THEN LoadScales(<< [tick |-> 0, qpm |-> evs[i].qpm] >>, evs, i + 1)
       ELSE IF evs[i].qpm = sc[Len(sc)].qpm
            THEN LoadScales(sc, evs, i + 1)
            ELSE LoadScales(Append(sc, evs[i]), evs, i + 1)

DecodeScales(file) == LoadScales(<< [tick |-> 0, qpm |-> DefaultQpm] >>, file.tempos, 1)

\* a note-off closes only the note-ons of an earlier tick: a note whose two
\* events share a tick is never closed and does not appear in the result
Sounding(n) == n.startTick # n.endTick

\* line 105: note_seq.midi_file_to_note_sequence
MidiFileToNoteSequence(file) ==
  LET sc == DecodeScales(file)
      T(k) == TickToTime(file.ppq, sc, k)
      kept == SelectSeq(file.notes, Sounding)
      notes == [i \in 1..Len(kept) |->
                  [pitch      |-> kept[i].pitch,
                   start_time |-> T(kept[i].startTick),
                   end_time   |-> T(kept[i].endTick),
                   velocity   |-> kept[i].velocity,
                   instrument |-> kept[i].instrument,
                   program    |-> kept[i].program,
                   is_drum    |-> kept[i].isDrum]]
  IN  [notes           |-> notes,
       tempos          |-> [i \in 1..Len(sc) |->
                              [time |-> T(sc[i].tick), qpm |-> sc[i].qpm]],
       time_signatures |-> [i \in 1..Len(file.timeSigs) |->
                              [time        |-> T(file.timeSigs[i].tick),
                               numerator   |-> file.timeSigs[i].numerator,
                               denominator |-> file.timeSigs[i].denominator]],
       total_time      |-> MaxEnd(notes, Len(notes))]

\* ---------------------------------------------------------- file system
EmptyMidi == [ppq |-> StandardPPQ, tempos |-> <<>>, timeSigs |-> <<>>, notes |-> <<>>]

\* a path with no file
NoFile == [exists |-> FALSE, complete |-> FALSE, midi |-> EmptyMidi]
\* a file opened with 'wb' and not (or only partly) written: not a MIDI file
Truncated == [exists |-> TRUE, complete |-> FALSE, midi |-> EmptyMidi]
\* a file holding the whole of a MIDI file
Written(m) == [exists |-> TRUE, complete |-> TRUE, midi |-> m]

TempUpload == "temp_upload.mid"     \* line 161
TempOutput == "temp_output.mid"     \* line 187
CliInput == "args.midi_file"        \* line 229
CliOutput == "args.output"          \* line 243
Paths == {TempUpload, TempOutput, CliInput, CliOutput}

\* ------------------------------------------------------------- the inputs
EmptyDict == [k \in {} |-> 0]
Seqs(S, n) == UNION {[1..k -> S] : k \in 0..n}

NoteDicts ==
  { [pitch |-> 60, startTime |-> 0, endTime |-> 1760, velocity |-> 80],
    [startTime |-> 881],
    [pitch |-> 36, startTime |-> 3, endTime |-> 5, isDrum |-> TRUE,
     instrument |-> 1, program |-> 5],
    [pitch |-> 128, startTime |-> 0, endTime |-> 880],
    EmptyDict }

TempoLists ==
  { <<>>,
    << [time |-> 0, qpm |-> 120] >>,
    << [qpm |-> 60] >>,
    << [time |-> 0, qpm |-> 120], [time |-> 1760, qpm |-> 60] >>,
    << [time |-> 1760, qpm |-> 60], [time |-> 0, qpm |-> 120] >> }

TimeSignatureLists ==
  { <<>>,
    << [time |-> 0, numerator |-> 3, denominator |-> 4] >>,
    << [time |-> 1760, numerator |-> 3, denominator |-> 4], [time |-> 0] >> }

TotalTimes == {0, 2000}

\* a dictionary with any subset of the four top-level keys
InputScores ==
  { [k \in ks |-> CASE k = "notes" -> ns
                    [] k = "tempos" -> ts
                    [] k = "timeSignatures" -> sg
                    [] k = "totalTime" -> tt] :
      ks \in SUBSET {"notes", "tempos", "timeSignatures", "totalTime"},
      ns \in Seqs(NoteDicts, MaxNotes), ts \in TempoLists,
      sg \in TimeSignatureLists, tt \in TotalTimes }

FileNotes ==
  { [pitch |-> 60, velocity |-> 80, startTick |-> 0, endTick |-> 4,
     instrument |-> 0, program |-> 0, isDrum |-> FALSE],
    [pitch |-> 62, velocity |-> 100, startTick |-> 3, endTick |-> 4,
     instrument |-> 0, program |-> 0, isDrum |-> FALSE],
    [pitch |-> 36, velocity |-> 90, startTick |-> 1, endTick |-> 6,
     instrument |-> 1, program |-> 0, isDrum |-> TRUE],
    [pitch |-> 72, velocity |-> 1, startTick |-> 5, endTick |-> 9,
     instrument |-> 2, program |-> 7, isDrum |-> FALSE] }

FileTempos ==
  { <<>>,
    << [tick |-> 0, qpm |-> 60] >>,
    << [tick |-> 0, qpm |-> 120], [tick |-> 4, qpm |-> 60] >>,
    << [tick |-> 2, qpm |-> 60] >> }

FileTimeSigs ==
  { <<>>,
    << [tick |-> 0, numerator |-> 3, denominator |-> 4] >>,
    << [tick |-> 0, numerator |-> 4, denominator |-> 4],
       [tick |-> 4, numerator |-> 3, denominator |-> 4] >> }

InputMidis ==
  [ppq : {StandardPPQ, 4 * StandardPPQ}, tempos : FileTempos,
   timeSigs : FileTimeSigs, notes : Seqs(FileNotes, MaxNotes)]

\* what a path given to the decoder may hold
InputFiles == {NoFile, Truncated} \cup {Written(m) : m \in InputMidis}

\* ------------------------------------------------------------------ state
VARIABLES
  fs,         \* the files: path -> NoFile, Truncated or Written(midi)
  faulted,    \* a write to the disk has failed
  pc,         \* command line run: where it is
  inScore,    \* the dictionary given to note_sequence_to_midi
  sequence,   \* the NoteSequence handed to the serializer (line 83)
  encOk,      \* what note_sequence_to_midi returned
  sequence2,  \* the NoteSequence built from the dictionary of `sequence`
  decOk,      \* midi_to_note_sequence returned a dictionary (not None)
  decoded,    \* the dictionary midi_to_note_sequence returned
  decoded2,   \* the dictionary decoded from the re-encoded file
  serial,     \* the server handles one request at a time
  req         \* the HTTP requests: slot -> request record

vars == <<fs, faulted, pc, inScore, sequence, encOk, sequence2, decOk,
          decoded, decoded2, serial, req>>

codecVars == <<pc, inScore, sequence, encOk, sequence2, decOk, decoded, decoded2>>

NoScore == [notes |-> <<>>]
NoSequence == BuildSequence(NoScore)

\* ------------------------------------------------- the conversions, whole
\* lines 22-90: note_sequence_to_midi(ns, path). The sequence is built and
\* serialized; the file is opened for writing and written. Any exception,
\* a failed write included, is caught and False returned.
NoteSequenceToMidi(ns, path) ==
  /\ sequence' = BuildSequence(ns)
  /\ \/ /\ Unencodable(BuildSequence(ns))
        /\ encOk' = FALSE
        /\ UNCHANGED <<fs, faulted>>
     \/ /\ ~Unencodable(BuildSequence(ns))
        /\ encOk' = TRUE
        /\ fs' = [fs EXCEPT ![path] = Written(SequenceProtoToMidiFile(BuildSequence(ns)))]
        /\ UNCHANGED faulted
     \/ /\ ~Unencodable(BuildSequence(ns))
        /\ encOk' = FALSE
        /\ fs' = [fs EXCEPT ![path] = Truncated]
        /\ faulted' = TRUE

\* lines 103-147: midi_to_note_sequence(path) returns a dictionary, or None
\* when the file cannot be read as a MIDI file
Readable(f) == f.exists /\ f.complete
MidiToNoteSequence(f) == SequenceToDict(MidiFileToNoteSequence(f.midi))

\* --------------------------------------------------------- command line
\* lines 239-244: json-to-midi
CliJsonToMidi ==
  /\ pc = "json-to-midi"
  /\ NoteSequenceToMidi(inScore, CliOutput)
  /\ pc' = "encoded"
  /\ UNCHANGED <<inScore, sequence2, decOk, decoded, decoded2, serial, req>>

\* the dictionary of the sequence just built, given to lines 35-80 again
FillAgain ==
  /\ pc = "encoded"
  /\ sequence2' = BuildSequence(SequenceToDict(sequence))
  /\ pc' = "refilled"
  /\ UNCHANGED <<fs, faulted, inScore, sequence, encOk, decOk, decoded, decoded2, serial, req>>

\* lines 228-237: midi-to-json
CliMidiToJson ==
  /\ pc = "midi-to-json"
  /\ decOk' = Readable(fs[CliInput])
  /\ decoded' = IF Readable(fs[CliInput]) THEN MidiToNoteSequence(fs[CliInput]) ELSE NoScore
  /\ pc' = "decoded"
  /\ UNCHANGED <<fs, faulted, inScore, sequence, encOk, sequence2, decoded2, serial, req>>

\* the decoded dictionary encoded again (json-to-midi on the output above)
ReEncode ==
  /\ pc = "decoded" /\ decOk
  /\ NoteSequenceToMidi(decoded, CliOutput)
  /\ pc' = "reencoded"
  /\ UNCHANGED <<inScore, sequence2, decOk, decoded, decoded2, serial, req>>

\* and the file it wrote decoded again
ReDecode ==
  /\ pc = "reencoded" /\ encOk
  /\ decoded2' = MidiToNoteSequence(fs[CliOutput])
  /\ pc' = "redecoded"
  /\ UNCHANGED <<fs, faulted, inScore, sequence, encOk, sequence2, decOk, decoded, serial, req>>

\* ------------------------------------------------------------ HTTP server
Slots == 1..MaxReq

ErrorResponse(code) == [status |-> code, kind |-> "error", score |-> NoScore, data |-> NoFile]
JsonResponse(d) == [status |-> 200, kind |-> "json", score |-> d, data |-> NoFile]
MidiResponse(f) == [status |-> 200, kind |-> "midi", score |-> NoScore, data |-> f]
Pending == [status |-> 0, kind |-> "none", score |-> NoScore, data |-> NoFile]

Idle ==
  [kind |-> "none", pc |-> "idle", is_json |-> FALSE, json |-> NoScore,
   has_file |-> FALSE, filename_ok |-> FALSE, upload |-> NoFile,
   midi_data |-> NoFile, result |-> Pending, returned |-> "none",
   before |-> NoFile, after |-> NoFile, resp |-> Pending]

HttpScores ==
  { [notes |-> << [pitch |-> 60, startTime |-> 0, endTime |-> 1760, velocity |-> 80] >>,
     tempos |-> << [time |-> 0, qpm |-> 120] >>],
    [notes |-> << [pitch |-> 36, startTime |-> 3, endTime |-> 5, isDrum |-> TRUE] >>],
    [notes |-> << [pitch |-> 128, startTime |-> 0, endTime |-> 880] >>],
    [tempos |-> <<>>] }

HttpUploads ==
  { Written([ppq |-> StandardPPQ, tempos |-> <<>>, timeSigs |-> <<>>,
             notes |-> << [pitch |-> 60, velocity |-> 80, startTick |-> 0, endTick |-> 4,
                           instrument |-> 0, program |-> 0, isDrum |-> FALSE] >>]),
    Written([ppq |-> StandardPPQ, tempos |-> << [tick |-> 0, qpm |-> 60] >>,
             timeSigs |-> << [tick |-> 0, numerator |-> 3, denominator |-> 4] >>,
             notes |-> << [pitch |-> 36, velocity |-> 90, startTick |-> 1, endTick |-> 6,
                           instrument |-> 1, program |-> 0, isDrum |-> TRUE] >>]),
    Truncated }

Quiet == \A j \in Slots : req[j].pc \in {"idle", "done"}

Respond(i, r, response) == [r EXCEPT !.pc = "done", !.resp = response]

\* a POST to /convert/json-to-midi arrives
ArriveJsonToMidi(i) ==
  /\ pc = "server"
  /\ req[i].pc \in {"idle", "done"}
  /\ serial => Quiet
  /\ \E j \in BOOLEAN, s \in HttpScores :
       req' = [req EXCEPT ![i] = [Idle EXCEPT !.kind = "j2m", !.pc = "validate",
                                               !.is_json = j, !.json = s]]
  /\ UNCHANGED <<fs, faulted, codecVars, serial>>

\* a POST to /convert/midi-to-json arrives
ArriveMidiToJson(i) ==
  /\ pc = "server"
  /\ req[i].pc \in {"idle", "done"}
  /\ serial => Quiet
  /\ \E h \in BOOLEAN, n \in BOOLEAN, u \in HttpUploads :
       /\ ~h => (n /\ u = Truncated)
       /\ req' = [req EXCEPT ![i] = [Idle EXCEPT !.kind = "m2j", !.pc = "validate",
                                                 !.has_file = h, !.filename_ok = n,
                                                 !.upload = u]]
  /\ UNCHANGED <<fs, faulted, codecVars, serial>>

\* lines 179-187: api_json_to_midi up to the call of note_sequence_to_midi
JsonToMidiValidate(i) ==
  /\ req[i].kind = "j2m" /\ req[i].pc = "validate"
  /\ req' = [req EXCEPT ![i] =
       IF ~req[i].is_json \/ "notes" \notin DOMAIN req[i].json
       THEN Respond(i, req[i], ErrorResponse(400))
       ELSE [req[i] EXCEPT !.pc = "convert", !.before = fs[TempOutput]]]
  /\ UNCHANGED <<fs, faulted, codecVars, serial>>

\* lines 33-83 and 88-90, 202-203: the sequence is built and serialized; an
\* exception makes note_sequence_to_midi return False and the endpoint
\* answer 500
JsonToMidiConvert(i) ==
  /\ req[i].kind = "j2m" /\ req[i].pc = "convert"
  /\ req' = [req EXCEPT ![i] =
       IF Unencodable(BuildSequence(req[i].json))
       THEN Respond(i, [req[i] EXCEPT !.returned = "False", !.after = fs[TempOutput]],
                    ErrorResponse(500))
       ELSE [req[i] EXCEPT !.pc = "open",
               !.midi_data = Written(SequenceProtoToMidiFile(BuildSequence(req[i].json)))]]
  /\ UNCHANGED <<fs, faulted, codecVars, serial>>

\* line 84: open(output_file, 'wb') creates the file or empties it
JsonToMidiOpen(i) ==
  /\ req[i].kind = "j2m" /\ req[i].pc = "open"
  /\ fs' = [fs EXCEPT ![TempOutput] = Truncated]
  /\ req' = [req EXCEPT ![i].pc = "write"]
  /\ UNCHANGED <<faulted, codecVars, serial>>

\* lines 85-87: f.write(midi_data), and True returned
JsonToMidiWrite(i) ==
  /\ req[i].kind = "j2m" /\ req[i].pc = "write"
  /\ fs' = [fs EXCEPT ![TempOutput] = req[i].midi_data]
  /\ req' = [req EXCEPT ![i] = [req[i] EXCEPT !.pc = "read", !.returned = "True",
                                              !.after = req[i].midi_data]]
  /\ UNCHANGED <<faulted, codecVars, serial>>

\* lines 85, 88-90, 202-203: the write fails (the disk is full), the
\* exception is caught, False returned and 500 answered
JsonToMidiWriteFails(i) ==
  /\ req[i].kind = "j2m" /\ req[i].pc = "write"
  /\ faulted' = TRUE
  /\ req' = [req EXCEPT ![i] =
       Respond(i, [req[i] EXCEPT !.returned = "False", !.after = fs[TempOutput]],
               ErrorResponse(500))]
  /\ UNCHANGED <<fs, codecVars, serial>>

\* lines 191-192: the file is read back; a missing file is an exception the
\* endpoint does not catch, and the server answers 500
JsonToMidiRead(i) ==
  /\ req[i].kind = "j2m" /\ req[i].pc = "read"
  /\ req' = [req EXCEPT ![i] =
       IF fs[TempOutput].exists
       THEN [req[i] EXCEPT !.pc = "remove", !.midi_data = fs[TempOutput]]
       ELSE Respond(i, req[i], ErrorResponse(500))]
  /\ UNCHANGED <<fs, faulted, codecVars, serial>>

\* lines 195-201: os.remove(temp_path) and the MIDI bytes as the response
JsonToMidiRemove(i) ==
  /\ req[i].kind = "j2m" /\ req[i].pc = "remove"
  /\ IF fs[TempOutput].exists
     THEN /\ fs' = [fs EXCEPT ![TempOutput] = NoFile]
          /\ req' = [req EXCEPT ![i] = Respond(i, req[i], MidiResponse(req[i].midi_data))]
     ELSE /\ req' = [req EXCEPT ![i] = Respond(i, req[i], ErrorResponse(500))]
          /\ UNCHANGED fs
  /\ UNCHANGED <<faulted, codecVars, serial>>

\* lines 153-161: api_midi_to_json up to file.save
MidiToJsonValidate(i) ==
  /\ req[i].kind = "m2j" /\ req[i].pc = "validate"
  /\ req' = [req EXCEPT ![i] =
       IF ~req[i].has_file \/ ~req[i].filename_ok
       THEN Respond(i, req[i], ErrorResponse(400))
       ELSE [req[i] EXCEPT !.pc = "save"]]
  /\ UNCHANGED <<fs, faulted, codecVars, serial>>

\* line 162: file.save(temp_path)
MidiToJsonSave(i) ==
  /\ req[i].kind = "m2j" /\ req[i].pc = "save"
  /\ fs' = [fs EXCEPT ![TempUpload] = req[i].upload]
  /\ req' = [req EXCEPT ![i].pc = "decode"]
  /\ UNCHANGED <<faulted, codecVars, serial>>

\* line 162: the save fails part way (the disk is full); the exception is
\* raised before the try block and the server answers 500
MidiToJsonSaveFails(i) ==
  /\ req[i].kind = "m2j" /\ req[i].pc = "save"
  /\ fs' = [fs EXCEPT ![TempUpload] = Truncated]
  /\ faulted' = TRUE
  /\ req' = [req EXCEPT ![i] = Respond(i, req[i], ErrorResponse(500))]
  /\ UNCHANGED <<codecVars, serial>>

\* lines 165-169: the conversion and the response it will give
MidiToJsonDecode(i) ==
  /\ req[i].kind = "m2j" /\ req[i].pc = "decode"
  /\ req' = [req EXCEPT ![i] =
       [req[i] EXCEPT !.pc = "exists",
          !.result = IF Readable(fs[TempUpload])
                     THEN JsonResponse(MidiToNoteSequence(fs[TempUpload]))
                     ELSE ErrorResponse(500)]]
  /\ UNCHANGED <<fs, faulted, codecVars, serial>>

\* line 172: if os.path.exists(temp_path)
MidiToJsonExists(i) ==
  /\ req[i].kind = "m2j" /\ req[i].pc = "exists"
  /\ req' = [req EXCEPT ![i] =
       IF fs[TempUpload].exists
       THEN [req[i] EXCEPT !.pc = "remove"]
       ELSE Respond(i, req[i], req[i].result)]
  /\ UNCHANGED <<fs, faulted, codecVars, serial>>

\* line 173: os.remove(temp_path); a file gone meanwhile is an exception
\* raised in the finally block, and the server answers 500
MidiToJsonRemove(i) ==
  /\ req[i].kind = "m2j" /\ req[i].pc = "remove"
  /\ IF fs[TempUpload].exists
     THEN /\ fs' = [fs EXCEPT ![TempUpload] = NoFile]
          /\ req' = [req EXCEPT ![i] = Respond(i, req[i], req[i].result)]
     ELSE /\ req' = [req EXCEPT ![i] = Respond(i, req[i], ErrorResponse(500))]
          /\ UNCHANGED fs
  /\ UNCHANGED <<faulted, codecVars, serial>>

\* --------------------------------------------------------- specifications
NoFiles == [p \in Paths |-> NoFile]

InitCommon ==
  /\ faulted = FALSE
  /\ sequence = NoSequence /\ encOk = FALSE /\ sequence2 = NoSequence
  /\ decOk = FALSE /\ decoded = NoScore /\ decoded2 = NoScore
  /\ req = [i \in Slots |-> Idle]

\* a command line run: json-to-midi on any dictionary (the output path may
\* hold an older file), or midi-to-json on any file
InitCodec ==
  /\ InitCommon
  /\ serial = TRUE
  /\ \/ /\ pc = "json-to-midi"
        /\ inScore \in InputScores
        /\ \E old \in {NoFile, Written(EmptyMidi)} : fs = [NoFiles EXCEPT ![CliOutput] = old]
     \/ /\ pc = "midi-to-json"
        /\ inScore = NoScore
        /\ \E f \in InputFiles : fs = [NoFiles EXCEPT ![CliInput] = f]

\* the server starts with no request and no temp file
InitServer ==
  /\ InitCommon
  /\ pc = "server"
  /\ inScore = NoScore
  /\ fs = NoFiles
  /\ serial = TRUE

InitConcurrent ==
  /\ InitCommon
  /\ pc = "server"
  /\ inScore = NoScore
  /\ fs = NoFiles
  /\ serial = FALSE

NextCodec ==
  \/ CliJsonToMidi
  \/ FillAgain
  \/ CliMidiToJson
  \/ ReEncode
  \/ ReDecode

NextServer ==
  \E i \in Slots :
    \/ ArriveJsonToMidi(i)
    \/ ArriveMidiToJson(i)
    \/ JsonToMidiValidate(i)
    \/ JsonToMidiConvert(i)
    \/ JsonToMidiOpen(i)
    \/ JsonToMidiWrite(i)
    \/ JsonToMidiWriteFails(i)
    \/ JsonToMidiRead(i)
    \/ JsonToMidiRemove(i)
    \/ MidiToJsonValidate(i)
    \/ MidiToJsonSave(i)
    \/ MidiToJsonSaveFails(i)
    \/ MidiToJsonDecode(i)
    \/ MidiToJsonExists(i)
    \/ MidiToJsonRemove(i)

\* the server handling one request at a time
Spec == InitServer /\ [][NextServer]_vars

\* the server handling requests concurrently (one thread per request)
SpecConcurrent == InitConcurrent /\ [][NextServer]_vars

\* the two conversions as functions of their input
SpecCodec == InitCodec /\ [][NextCodec]_vars

\* ------------------------------------------------------------- the claims
Abs(x) == IF x < 0 THEN 0 - x ELSE x

IsSorted(xs) == \A i \in 1..Len(xs) : \A j \in i..Len(xs) : xs[i].time <= xs[j].time

\* the tempo in effect at time t in a decoded dictionary
PrevailingQpm(d, t) ==
  d.tempos[MaxOf({j \in 1..Len(d.tempos) : j = 1 \/ d.tempos[j].time <= t})].qpm

OneTick(d, t) == TickLen(StandardPPQ, PrevailingQpm(d, t))

SameNote(d, a, b) ==
  /\ a.pitch = b.pitch /\ a.velocity = b.velocity
  /\ a.instrument = b.instrument /\ a.program = b.program
  /\ Get(a, "isDrum", FALSE) = Get(b, "isDrum", FALSE)
  /\ Abs(a.startTime - b.startTime) <= OneTick(d, a.startTime)
  /\ Abs(a.endTime - b.endTime) <= OneTick(d, a.endTime)

\* C1: a decoded score, encoded and decoded again, has the same notes (pitch,
\* velocity, instrument, program, isDrum), their times within one tick at
\* the prevailing tempo.
C1_RoundTrip ==
  pc = "redecoded" =>
    /\ Len(decoded2.notes) = Len(decoded.notes)
    /\ \A i \in 1..Len(decoded.notes) :
         i <= Len(decoded2.notes) => SameNote(decoded, decoded.notes[i], decoded2.notes[i])

\* the response a request gets when it is the only one the server handles
OwnResponse(r) ==
  IF r.kind = "j2m"
  THEN IF ~r.is_json \/ "notes" \notin DOMAIN r.json THEN ErrorResponse(400)
       ELSE IF Unencodable(BuildSequence(r.json)) THEN ErrorResponse(500)
       ELSE MidiResponse(Written(SequenceProtoToMidiFile(BuildSequence(r.json))))
  ELSE IF ~r.has_file \/ ~r.filename_ok THEN ErrorResponse(400)
       ELSE IF ~Readable(r.upload) THEN ErrorResponse(500)
       ELSE JsonResponse(MidiToNoteSequence(r.upload))

\* C2: under any interleaving of concurrent requests, every response is the
\* conversion of the request's own input, and no request fails because of
\* another (no write to the disk having failed).
C2_OwnConversion ==
  ~faulted => \A i \in Slots : req[i].pc = "done" => req[i].resp = OwnResponse(req[i])

InputEmpty(k) == k \notin DOMAIN inScore \/ inScore[k] = <<>>

\* C3: the sequence handed to the serializer has a tempo and a time
\* signature; an input with empty `tempos` (absent or []) gives exactly the
\* 120 qpm tempo at time 0, one with empty `timeSignatures` exactly 4/4 at 0.
C3_EncoderDefaults ==
  pc = "encoded" =>
    /\ Len(sequence.tempos) > 0
    /\ Len(sequence.time_signatures) > 0
    /\ InputEmpty("tempos") => sequence.tempos = << [time |-> 0, qpm |-> 120] >>
    /\ InputEmpty("timeSignatures") =>
         sequence.time_signatures = << [time |-> 0, numerator |-> 4, denominator |-> 4] >>

\* C4: every decoded score has a tempo at time 0 and a time signature (the
\* defaults 120 qpm and 4/4 at time 0 when the file has none), and for a
\* file with no notes, notes = [] and totalTime = 0.
C4_DecoderDefaults ==
  (pc = "decoded" /\ decOk) =>
    LET file == fs[CliInput].midi IN
    /\ \E i \in 1..Len(decoded.tempos) : decoded.tempos[i].time = 0
    /\ Len(decoded.timeSignatures) > 0
    /\ file.tempos = <<>> => [time |-> 0, qpm |-> 120] \in {decoded.tempos[i] : i \in 1..Len(decoded.tempos)}
    /\ file.timeSigs = <<>> =>
         [time |-> 0, numerator |-> 4, denominator |-> 4]
            \in {decoded.timeSignatures[i] : i \in 1..Len(decoded.timeSignatures)}
    /\ file.notes = <<>> => (decoded.notes = <<>> /\ decoded.totalTime = 0)

\* the end time the claim gives a note of the input
ClaimedEnd(nd) ==
  IF "endTime" \in DOMAIN nd THEN nd.endTime
  ELSE (IF "startTime" \in DOMAIN nd THEN nd.startTime ELSE 0) + HalfSecond

InputNotes == IF "notes" \in DOMAIN inScore THEN inScore.notes ELSE <<>>

\* C5: the sequence's total time is the input's `totalTime` when that key is
\* given; otherwise the largest end time of the input's notes (startTime +
\* 0.5 for a note without endTime), and 0 when there are no notes.
C5_TotalTime ==
  pc = "encoded" =>
    IF "totalTime" \in DOMAIN inScore THEN sequence.total_time = inScore.totalTime
    ELSE IF InputNotes = <<>> THEN sequence.total_time = 0
    ELSE /\ \E i \in 1..Len(InputNotes) : sequence.total_time = ClaimedEnd(InputNotes[i])
         /\ \A i \in 1..Len(InputNotes) : sequence.total_time >= ClaimedEnd(InputNotes[i])

\* C5 witness: the total time was derived from a note without endTime, and
\* in another run taken from the key
C5_Witness ==
  /\ pc = "encoded"
  /\ "totalTime" \notin DOMAIN inScore
  /\ Len(InputNotes) = 2
  /\ "endTime" \notin DOMAIN InputNotes[1]
  /\ sequence.total_time = ClaimedEnd(InputNotes[1])
  /\ sequence.total_time > ClaimedEnd(InputNotes[2])

\* C6: default-filling is idempotent: filling the already filled score
\* gives the same sequence as filling once.
C6_Idempotent == pc = "refilled" => sequence2 = sequence

\* C6 witness: the first filling did insert both defaults and derive the
\* total time, and the second ran
C6_Witness ==
  /\ pc = "refilled"
  /\ "tempos" \notin DOMAIN inScore
  /\ "timeSignatures" \notin DOMAIN inScore
  /\ "totalTime" \notin DOMAIN inScore
  /\ Len(InputNotes) > 0
  /\ Len(sequence2.tempos) = 1
  /\ sequence2.total_time > 0

\* C7: when note_sequence_to_midi returns False the output file is as it
\* was before the call, and the endpoint answers an error without MIDI bytes.
C7_FailedEncodeLeavesFile ==
  \A i \in Slots :
    req[i].returned = "False" =>
      /\ req[i].after = req[i].before
      /\ req[i].resp.status >= 400
      /\ req[i].resp.kind = "error"

\* C8: when the encode succeeds, the tempos and the time signatures handed
\* to the serializer are in non-decreasing order of time.
C8_SortedBeforeEncoding ==
  (pc = "encoded" /\ encOk) =>
    /\ IsSorted(sequence.tempos)
    /\ IsSorted(sequence.time_signatures)

NoteKeys == {"pitch", "startTime", "endTime", "velocity", "instrument", "program"}

\* the notes of the decoded file, in the order of the result
DecodedFileNotes == SelectSeq(fs[CliInput].midi.notes, Sounding)

\* C9 as stated: every decoded note carries all seven fields, isDrum being
\* false for a non-percussion note and true for a percussion note.
C9_SevenFields ==
  (pc = "decoded" /\ decOk) =>
    \A i \in 1..Len(decoded.notes) :
      /\ DOMAIN decoded.notes[i] = NoteKeys \cup {"isDrum"}
      /\ decoded.notes[i].isDrum = DecodedFileNotes[i].isDrum

\* C9 amended: every decoded note carries the six fields pitch, startTime,
\* endTime, velocity, instrument and program; it carries isDrum, with the
\* value true, exactly when the note is a percussion note, and no isDrum key
\* when it is not.
C9_DrumKeyOnlyWhenDrum ==
  (pc = "decoded" /\ decOk) =>
    /\ Len(decoded.notes) = Len(DecodedFileNotes)
    /\ \A i \in 1..Len(decoded.notes) :
         /\ NoteKeys \subseteq DOMAIN decoded.notes[i]
         /\ DOMAIN decoded.notes[i] \subseteq NoteKeys \cup {"isDrum"}
         /\ ("isDrum" \in DOMAIN decoded.notes[i]) <=> DecodedFileNotes[i].isDrum
         /\ "isDrum" \in DOMAIN decoded.notes[i] => decoded.notes[i].isDrum = TRUE

\* C9 witness: a file with a percussion note and a non-percussion note decoded
C9_Witness ==
  /\ pc = "decoded" /\ decOk
  /\ Len(decoded.notes) = 2
  /\ "isDrum" \in DOMAIN decoded.notes[1]
  /\ "isDrum" \notin DOMAIN decoded.notes[2]

\* C10: requests being handled one at a time, once a request has returned
\* neither temp file exists.
C10_TempFilesRemoved ==
  (Quiet /\ \E i \in Slots : req[i].pc = "done") =>
    /\ ~fs[TempUpload].exists
    /\ ~fs[TempOutput].exists
====
